---- MODULE Spec2Model ----
(***************************************************************************)
(* Negative prompting notebook (negative-prompting.ipynb), sections 3 and  *)
(* 4: a constrained prompt is rendered and sent to the model, the reply is *)
(* scored against three boolean constraints and, when one of them fails,   *)
(* a refined prompt is rendered, sent and scored once more.                *)
(*                                                                         *)
(* Replies are sequences of one-character strings, so that str.split,      *)
(* str.lower, the substring test and the regular expression are computed   *)
(* character by character.  Prompts and keyword values are TLA+ strings,   *)
(* joined with \o the way str.format joins them.                           *)
(***************************************************************************)
EXTENDS Integers, Sequences, FiniteSets, TLC

VARIABLES
    pc,                  \* the statement of cells 3-4 that runs next
    constraints,         \* keys of the dict `constraints`, in insertion order
    format_kwargs,       \* keyword arguments of the two constraint_prompt.format calls
    prompt,              \* the rendered argument of the first get_response call
    response,            \* global `response`
    evaluation_results,  \* global `evaluation_results`
    refined_prompt,      \* global `refined_prompt`
    refined_response,    \* global `refined_response`
    refined_evaluation,  \* global `refined_evaluation`
    genCalls,            \* number of llm.invoke calls made by cells 3-4
    error                \* the uncaught exception that stopped the run, if any

vars == <<pc, constraints, format_kwargs, prompt, response, evaluation_results,
          refined_prompt, refined_response, refined_evaluation, genCalls, error>>

----------------------------------------------------------------------------
(* Characters *)

Alpha == <<"a","b","c","d","e","f","g","h","i","j","k","l","m",
           "n","o","p","q","r","s","t","u","v","w","x","y","z">>

AlphaUpper == <<"A","B","C","D","E","F","G","H","I","J","K","L","M",
                "N","O","P","Q","R","S","T","U","V","W","X","Y","Z">>

Digits == {"0","1","2","3","4","5","6","7","8","9"}

\* str.split() with no argument splits on runs of whitespace
Whitespace == {" ", "\t", "\n", "\r", "\f"}

\* the class \w of the re module: letters, digits and the underscore
WordChars ==
    { Alpha[i] : i \in 1..Len(Alpha) }
        \cup { AlphaUpper[i] : i \in 1..Len(AlphaUpper) }
        \cup Digits \cup {"_"}

IsWordChar(c) == c \in WordChars

\* the lower-case form of each upper-case letter
LowerOf == [c \in { AlphaUpper[i] : i \in 1..Len(AlphaUpper) } |->
               Alpha[CHOOSE i \in 1..Len(AlphaUpper) : AlphaUpper[i] = c]]

\* str.lower() on one character
LowerChar(c) == IF c \in DOMAIN LowerOf THEN LowerOf[c] ELSE c

\* x.lower()
lower(x) == [i \in 1..Len(x) |-> LowerChar(x[i])]

\* x.split(): the maximal runs of non-whitespace characters of x[lo..hi], left
\* to right.  The range is cut at its middle: at a whitespace character, or
\* around the whole word that covers the middle.
RECURSIVE split_range(_, _, _)
split_range(x, lo, hi) ==
    IF lo > hi THEN << >>
    ELSE LET mid == (lo + hi) \div 2
         IN  IF x[mid] \in Whitespace
             THEN split_range(x, lo, mid - 1) \o split_range(x, mid + 1, hi)
             ELSE LET first == CHOOSE j \in lo..mid :
                                  /\ \A k \in j..mid : x[k] \notin Whitespace
                                  /\ j = lo \/ x[j - 1] \in Whitespace
                      last  == CHOOSE j \in mid..hi :
                                  /\ \A k \in mid..j : x[k] \notin Whitespace
                                  /\ j = hi \/ x[j + 1] \in Whitespace
                  IN  split_range(x, lo, first - 2)
                          \o << SubSeq(x, first, last) >>
                          \o split_range(x, last + 2, hi)

split(x) == split_range(x, 1, Len(x))

\* `word in text`: word occurs as a contiguous substring
contains(text, word) ==
    \E i \in 0..(Len(text) - Len(word)) :
        \A k \in 1..Len(word) : text[i + k] = word[k]

\* Variant of word_boundary: the pattern without its \b anchors
word_boundary_any(x, p) == TRUE

\* \b at offset p (between x[p] and x[p+1]): exactly one side is a \w character
word_boundary(x, p) ==
    LET before == p >= 1 /\ p <= Len(x) /\ IsWordChar(x[p])
        after  == p + 1 >= 1 /\ p + 1 <= Len(x) /\ IsWordChar(x[p + 1])
    IN  before # after

\* the literal `lit` matches at offset p under re.IGNORECASE
literal_at(x, p, lit) ==
    /\ p + Len(lit) <= Len(x)
    /\ \A k \in 1..Len(lit) : LowerChar(x[p + k]) = lit[k]

\* \b(as|like)\b matches with its first character at offset p
pattern_at(x, p) ==
    /\ word_boundary(x, p)
    /\ \E lit \in {<<"a","s">>, <<"l","i","k","e">>} :
          /\ literal_at(x, p, lit)
          /\ word_boundary(x, p + Len(lit))

\* re.search(r"\b(as|like)\b", x, re.IGNORECASE): the start (1-based) of the
\* leftmost match, 0 for None
re_search(x) ==
    IF \E p \in 0..Len(x) : pattern_at(x, p)
    THEN 1 + CHOOSE p \in 0..Len(x) :
                 pattern_at(x, p) /\ \A q \in 0..(p - 1) : ~pattern_at(x, q)
    ELSE 0

----------------------------------------------------------------------------
(* Cell 4: the constraints and evaluate_output *)

maxWordCount == 100

\* the list literal inside the no_excluded_words lambda
excluded_list ==
    << <<"r","o","b","o","t">>,
       <<"h","u","m","a","n","-","l","i","k","e">>,
       <<"s","c","i","e","n","c","e"," ","f","i","c","t","i","o","n">> >>

\* Variant of word_count: a strict comparison
word_count_strict(x) == Len(split(x)) < maxWordCount

\* lambda x: len(x.split()) <= 100
word_count(x) == Len(split(x)) <= maxWordCount

\* lambda x: all(word not in x.lower() for word in [...])
no_excluded_words(x) ==
    LET lowered == lower(x)
    IN  \A i \in 1..Len(excluded_list) : ~contains(lowered, excluded_list[i])

\* lambda x: not re.search(r"\b(as|like)\b", x, re.IGNORECASE)
no_analogies(x) == re_search(x) = 0

\* the keys of the dict literal `constraints`, in insertion order
constraint_names == <<"word_count", "no_excluded_words", "no_analogies">>

\* constraints[name](x)
check_func(name, x) ==
    CASE name = "word_count"        -> word_count(x)
      [] name = "no_excluded_words" -> no_excluded_words(x)
      [] name = "no_analogies"      -> no_analogies(x)

\* results[key] = value on a dict
dict_set(d, key, value) ==
    [k \in DOMAIN d \cup {key} |-> IF k = key THEN value ELSE d[k]]

\* the for loop of evaluate_output, from the i-th item of cs on
RECURSIVE evaluate_loop(_, _, _, _)
evaluate_loop(output, cs, i, results) ==
    IF i > Len(cs) THEN results
    ELSE evaluate_loop(output, cs, i + 1,
                       dict_set(results, cs[i], check_func(cs[i], output)))

\* Variant of evaluate_output: `return results` indented into the loop body
evaluate_output_early(output, cs) ==
    IF cs = << >> THEN << >> ELSE evaluate_loop(output, << cs[1] >>, 1, << >>)

\* evaluate_output(output, constraints)
evaluate_output(output, cs) == evaluate_loop(output, cs, 1, << >>)

\* Variant of all_values: any() in place of all()
any_values(d) == \E k \in DOMAIN d : d[k]

\* all(d.values())
all_values(d) == \A k \in DOMAIN d : d[k]

----------------------------------------------------------------------------
(* Cell 3: the prompt template and its rendering *)

\* PromptTemplate(input_variables=[...], template="""...""")
input_variables == {"topic", "style", "excluded_words"}

constraint_prompt ==
    << [slot |-> FALSE, text |-> "Write a "],
       [slot |-> TRUE,  text |-> "style"],
       [slot |-> FALSE, text |-> " description of "],
       [slot |-> TRUE,  text |-> "topic"],
       [slot |-> FALSE, text |-> ".\n    Constraints:\n    1. Do not use any of these words: "],
       [slot |-> TRUE,  text |-> "excluded_words"],
       [slot |-> FALSE, text |-> "\n    2. Keep the description under 100 words\n    3. Do not use analogies or metaphors\n    4. Focus only on factual information"] >>

\* template.format(**kwargs): the fields are substituted left to right; the
\* first field without a keyword raises KeyError
RECURSIVE format_from(_, _, _, _)
format_from(template, kwargs, i, text) ==
    IF i > Len(template) THEN [raised |-> FALSE, text |-> text]
    ELSE IF ~template[i].slot
         THEN format_from(template, kwargs, i + 1, text \o template[i].text)
    ELSE IF template[i].text \in DOMAIN kwargs
         THEN format_from(template, kwargs, i + 1, text \o kwargs[template[i].text])
    ELSE [raised |-> TRUE, text |-> template[i].text]

format(template, kwargs) == format_from(template, kwargs, 1, "")

\* the keyword arguments of the call in cell 3
initial_kwargs ==
    [topic          |-> "artificial intelligence",
     style          |-> "technical",
     excluded_words |-> "robot, human-like, science fiction"]

\* Variant of refined_kwargs: "as" left out of the extended exclusion list
refined_kwargs_short ==
    [topic          |-> "artificial intelligence",
     style          |-> "technical and concise",
     excluded_words |-> "robot, human-like, science fiction, like"]

\* the keyword arguments of the call inside the `if` of cell 4
refined_kwargs ==
    [topic          |-> "artificial intelligence",
     style          |-> "technical and concise",
     excluded_words |-> "robot, human-like, science fiction, like, as"]

----------------------------------------------------------------------------
(* The replies the model can give, and the inputs of the checks *)

MaxReplyPieces == 1
MaxPieces == 2

\* all concatenations of at most n members of pieces
RECURSIVE Concats(_, _)
Concats(pieces, n) ==
    IF n = 0 THEN { << >> }
    ELSE LET shorter == Concats(pieces, n - 1)
         IN  shorter \cup { s \o q : s \in shorter, q \in pieces }

\* k words "x", each followed by one space
Pad(k) == [i \in 1..(2 * k) |-> IF i % 2 = 1 THEN "x" ELSE " "]

Padded(pads, texts) == { Pad(k) \o t : k \in pads, t \in texts }

ReplyPieces ==
    { <<"x">>, <<" ">>, <<"l","i","k","e">>, <<"R","o","b","o","t">> }

\* what llm.invoke(prompt).content can be in a run of cells 3-4
Replies ==
    Padded({0, maxWordCount}, Concats(ReplyPieces, MaxReplyPieces))

Pieces ==
    { <<"x">>, <<" ">>, <<"\n">>, <<",">>, <<"_">>,
      <<"a","s">>, <<"l","i","k","e">>, <<"L","i","k","e">>,
      <<"w","i","s","e">>, <<"R","o","b","o","t">> }

\* the texts evaluate_output is applied to when it is checked on its own
Responses ==
    Concats(Pieces, MaxPieces)
        \cup Padded({maxWordCount - 1, maxWordCount},
                    Concats(ReplyPieces, MaxPieces))

\* every dict whose keys are some of the three constraint names, in the order
\* of the dict literal
ConstraintDicts ==
    { SelectSeq(constraint_names, LAMBDA n : n \in keep) :
        keep \in SUBSET { constraint_names[i] : i \in 1..Len(constraint_names) } }

\* d without the keys in gone
without(d, gone) == [k \in DOMAIN d \ gone |-> d[k]]

----------------------------------------------------------------------------
(* State *)

\* a name that is not bound yet
UnboundText == "<unbound>"
UnboundReply == << "<unbound>" >>
UnboundDict == [k \in {"<unbound>"} |-> FALSE]

NoError == [at |-> "", type |-> "", detail |-> ""]

InitGlobals ==
    /\ prompt = UnboundText
    /\ response = UnboundReply
    /\ evaluation_results = UnboundDict
    /\ refined_prompt = UnboundText
    /\ refined_response = UnboundReply
    /\ refined_evaluation = UnboundDict
    /\ error = NoError

\* the notebook as written, before cell 3 runs
Init ==
    /\ pc = "render_initial"
    /\ constraints = constraint_names
    /\ format_kwargs = [initial |-> initial_kwargs, refined |-> refined_kwargs]
    /\ genCalls = 0
    /\ InitGlobals

RefinedStage == {"render_refined", "generate_refined", "evaluate_refined"}

----------------------------------------------------------------------------
(* Cell 3 *)

\* an uncaught exception ends the run
raise(type, detail) ==
    /\ pc' = "aborted"
    /\ error' = [at |-> pc, type |-> type, detail |-> detail]

\* constraint_prompt.format(topic=..., style=..., excluded_words=...)
RenderInitial ==
    /\ pc = "render_initial"
    /\ LET r == format(constraint_prompt, format_kwargs.initial)
       IN  IF r.raised
           THEN raise("KeyError", r.text) /\ UNCHANGED prompt
           ELSE prompt' = r.text /\ pc' = "generate_initial" /\ UNCHANGED error
    /\ UNCHANGED <<constraints, format_kwargs, response, evaluation_results,
                   refined_prompt, refined_response, refined_evaluation, genCalls>>

\* what llm.invoke(prompt).content does: returns a text or raises
get_response_outcomes ==
    { [raised |-> FALSE, content |-> r] : r \in Replies }
        \cup { [raised |-> TRUE, content |-> UnboundReply] }

\* Variant of GenerateInitial: the exception is caught, noted, and the run
\* goes on with an empty text
GenerateInitialCaught ==
    /\ pc = "generate_initial"
    /\ genCalls' = genCalls + 1
    /\ \E out \in get_response_outcomes :
          IF out.raised
          THEN /\ error' = [at |-> pc, type |-> "GenerationError", detail |-> ""]
               /\ response' = << >>
               /\ pc' = "evaluate_initial"
          ELSE response' = out.content /\ pc' = "evaluate_initial" /\ UNCHANGED error
    /\ UNCHANGED <<constraints, format_kwargs, prompt, evaluation_results,
                   refined_prompt, refined_response, refined_evaluation>>

\* response = get_response(<the rendered prompt>)
GenerateInitial ==
    /\ pc = "generate_initial"
    /\ genCalls' = genCalls + 1
    /\ \E out \in get_response_outcomes :
          IF out.raised
          THEN raise("GenerationError", "") /\ UNCHANGED response
          ELSE response' = out.content /\ pc' = "evaluate_initial" /\ UNCHANGED error
    /\ UNCHANGED <<constraints, format_kwargs, prompt, evaluation_results,
                   refined_prompt, refined_response, refined_evaluation>>

----------------------------------------------------------------------------
(* Cell 4 *)

\* evaluation_results = evaluate_output(response, constraints)
EvaluateInitial ==
    /\ pc = "evaluate_initial"
    /\ evaluation_results' = evaluate_output(response, constraints)
    /\ pc' = "check_all"
    /\ UNCHANGED <<constraints, format_kwargs, prompt, response, refined_prompt,
                   refined_response, refined_evaluation, genCalls, error>>

\* if not all(evaluation_results.values()):
CheckAll ==
    /\ pc = "check_all"
    /\ pc' = IF ~all_values(evaluation_results) THEN "render_refined" ELSE "done"
    /\ UNCHANGED <<constraints, format_kwargs, prompt, response, evaluation_results,
                   refined_prompt, refined_response, refined_evaluation, genCalls,
                   error>>

\* Variant of RenderRefined: a KeyError is noted and the first prompt is sent
\* again
RenderRefinedFallback ==
    /\ pc = "render_refined"
    /\ LET r == format(constraint_prompt, format_kwargs.refined)
       IN  IF r.raised
           THEN /\ error' = [at |-> pc, type |-> "KeyError", detail |-> r.text]
                /\ refined_prompt' = prompt
                /\ pc' = "generate_refined"
           ELSE /\ refined_prompt' = r.text
                /\ pc' = "generate_refined"
                /\ UNCHANGED error
    /\ UNCHANGED <<constraints, format_kwargs, prompt, response, evaluation_results,
                   refined_response, refined_evaluation, genCalls>>

\* refined_prompt = constraint_prompt.format(...)
RenderRefined ==
    /\ pc = "render_refined"
    /\ LET r == format(constraint_prompt, format_kwargs.refined)
       IN  IF r.raised
           THEN raise("KeyError", r.text) /\ UNCHANGED refined_prompt
           ELSE /\ refined_prompt' = r.text
                /\ pc' = "generate_refined"
                /\ UNCHANGED error
    /\ UNCHANGED <<constraints, format_kwargs, prompt, response, evaluation_results,
                   refined_response, refined_evaluation, genCalls>>

\* Variant of GenerateRefined: the reply is assigned to `response`
GenerateRefinedOverwrite ==
    /\ pc = "generate_refined"
    /\ genCalls' = genCalls + 1
    /\ \E out \in get_response_outcomes :
          IF out.raised
          THEN raise("GenerationError", "") /\ UNCHANGED response
          ELSE /\ response' = out.content
               /\ pc' = "evaluate_refined"
               /\ UNCHANGED error
    /\ UNCHANGED <<constraints, format_kwargs, prompt, refined_response,
                   evaluation_results, refined_prompt, refined_evaluation>>

\* Variant of GenerateRefined: a failed call discards the first attempt
GenerateRefinedDiscard ==
    /\ pc = "generate_refined"
    /\ genCalls' = genCalls + 1
    /\ \E out \in get_response_outcomes :
          IF out.raised
          THEN /\ raise("GenerationError", "")
               /\ evaluation_results' = UnboundDict
               /\ UNCHANGED refined_response
          ELSE /\ refined_response' = out.content
               /\ pc' = "evaluate_refined"
               /\ UNCHANGED <<error, evaluation_results>>
    /\ UNCHANGED <<constraints, format_kwargs, prompt, response, refined_prompt,
                   refined_evaluation>>

\* refined_response = get_response(refined_prompt)
GenerateRefined ==
    /\ pc = "generate_refined"
    /\ genCalls' = genCalls + 1
    /\ \E out \in get_response_outcomes :
          IF out.raised
          THEN raise("GenerationError", "") /\ UNCHANGED refined_response
          ELSE /\ refined_response' = out.content
               /\ pc' = "evaluate_refined"
               /\ UNCHANGED error
    /\ UNCHANGED <<constraints, format_kwargs, prompt, response, evaluation_results,
                   refined_prompt, refined_evaluation>>

\* Variant of EvaluateRefined: a failing refined attempt starts another round
EvaluateRefinedLoop ==
    /\ pc = "evaluate_refined"
    /\ refined_evaluation' = evaluate_output(refined_response, constraints)
    /\ pc' = IF all_values(refined_evaluation') THEN "done" ELSE "render_refined"
    /\ UNCHANGED <<constraints, format_kwargs, prompt, response, evaluation_results,
                   refined_prompt, refined_response, genCalls, error>>

\* refined_evaluation = evaluate_output(refined_response, constraints)
EvaluateRefined ==
    /\ pc = "evaluate_refined"
    /\ refined_evaluation' = evaluate_output(refined_response, constraints)
    /\ pc' = "done"
    /\ UNCHANGED <<constraints, format_kwargs, prompt, response, evaluation_results,
                   refined_prompt, refined_response, genCalls, error>>

Next ==
    \/ RenderInitial
    \/ GenerateInitial
    \/ EvaluateInitial
    \/ CheckAll
    \/ RenderRefined
    \/ GenerateRefined
    \/ EvaluateRefined

Spec == Init /\ [][Next]_vars

----------------------------------------------------------------------------
(* The same run with keyword arguments left out of the two format calls *)

InitSlots ==
    /\ pc = "render_initial"
    /\ constraints = constraint_names
    /\ \E gone1, gone2 \in SUBSET input_variables :
          format_kwargs = [initial |-> without(initial_kwargs, gone1),
                           refined |-> without(refined_kwargs, gone2)]
    /\ genCalls = 0
    /\ InitGlobals

SpecSlots == InitSlots /\ [][Next]_vars

----------------------------------------------------------------------------
(* evaluate_output on its own: any text, any sub-dict of the constraints *)

InitEval ==
    /\ pc = "evaluate_initial"
    /\ constraints \in ConstraintDicts
    /\ format_kwargs = [initial |-> initial_kwargs, refined |-> refined_kwargs]
    /\ genCalls = 1
    /\ prompt = format(constraint_prompt, initial_kwargs).text
    /\ response \in Responses
    /\ evaluation_results = UnboundDict
    /\ refined_prompt = UnboundText
    /\ refined_response = UnboundReply
    /\ refined_evaluation = UnboundDict
    /\ error = NoError

NextEval == EvaluateInitial

SpecEval == InitEval /\ [][NextEval]_vars

----------------------------------------------------------------------------
(* Properties *)

SomeFalse(d) == \E k \in DOMAIN d : d[k] = FALSE

Names(cs) == { cs[i] : i \in 1..Len(cs) }

\* C1: the refined stage is entered exactly when some entry of the initial
\* evaluation is false; when every entry is true the run ends after the
\* initial attempt, with one generation call and nothing refined.
C1_RefinedIffInitialFailed ==
    /\ (pc \in RefinedStage \/ refined_prompt # UnboundText \/ genCalls > 1)
          => (evaluation_results # UnboundDict /\ SomeFalse(evaluation_results))
    /\ pc = "done" =>
          /\ evaluation_results # UnboundDict
          /\ SomeFalse(evaluation_results) <=> refined_evaluation # UnboundDict
          /\ SomeFalse(evaluation_results) <=> genCalls = 2
          /\ ~SomeFalse(evaluation_results) =>
                /\ genCalls = 1
                /\ refined_prompt = UnboundText
                /\ refined_response = UnboundReply

\* the run has ended after a refinement that one false entry triggered
C1_Witness ==
    /\ pc = "done"
    /\ evaluation_results # UnboundDict
    /\ evaluation_results["no_analogies"] = FALSE
    /\ evaluation_results["word_count"] = TRUE
    /\ evaluation_results["no_excluded_words"] = TRUE
    /\ refined_evaluation # UnboundDict

\* C2: a run makes at most two generation calls; once the refined evaluation
\* exists the run is over and no statement can run again, also when the
\* refined evaluation still holds a false entry.
C2_AtMostOneRefinement ==
    /\ genCalls <= 2
    /\ refined_evaluation # UnboundDict =>
          /\ pc = "done"
          /\ genCalls = 2
          /\ ~ENABLED Next

\* the run has ended with a refined attempt that still fails
C2_Witness ==
    /\ pc = "done"
    /\ genCalls = 2
    /\ refined_evaluation # UnboundDict
    /\ SomeFalse(refined_evaluation)

\* a statement of the refined stage leaves the first attempt as it was
RefinedStepKeepsInitial ==
    pc \in RefinedStage =>
        /\ response' = response
        /\ evaluation_results' = evaluation_results
        /\ prompt' = prompt

\* C3: when the refined stage has run to its end both evaluations are bound,
\* and no statement of the refined stage changes the first prompt, the first
\* response or the first evaluation.
C3_RefinedKeepsInitial ==
    /\ [](refined_evaluation # UnboundDict =>
             /\ evaluation_results # UnboundDict
             /\ response # UnboundReply
             /\ refined_response # UnboundReply
             /\ evaluation_results = evaluate_output(response, constraints))
    /\ [][RefinedStepKeepsInitial]_vars

\* the refined attempt passes where the first one failed, and both are bound
C3_Witness ==
    /\ pc = "done"
    /\ refined_evaluation # UnboundDict
    /\ ~SomeFalse(refined_evaluation)
    /\ SomeFalse(evaluation_results)
    /\ response # refined_response

\* C4: evaluate_output returns a dict whose keys are exactly the constraint
\* names, one entry each, and whose value at each name is that constraint's
\* predicate applied to the text; also for the empty text and the empty dict.
C4_EvaluateKeysAndValues ==
    evaluation_results # UnboundDict =>
        /\ DOMAIN evaluation_results = Names(constraints)
        /\ Cardinality(DOMAIN evaluation_results) = Len(constraints)
        /\ \A n \in Names(constraints) :
              /\ evaluation_results[n] \in BOOLEAN
              /\ evaluation_results[n] = check_func(n, response)

\* the empty text scored against all three constraints
C4_Witness ==
    /\ response = << >>
    /\ Len(constraints) = 3
    /\ evaluation_results # UnboundDict
    /\ Cardinality(DOMAIN evaluation_results) = 3

\* C5: a failed first generation call ends the run at once: one call was
\* made, nothing is evaluated, nothing is refined, no statement runs after it.
C5_InitialFailureAborts ==
    error.at = "generate_initial" =>
        /\ pc = "aborted"
        /\ error.type = "GenerationError"
        /\ genCalls = 1
        /\ response = UnboundReply
        /\ evaluation_results = UnboundDict
        /\ refined_prompt = UnboundText
        /\ refined_response = UnboundReply
        /\ refined_evaluation = UnboundDict
        /\ ~ENABLED Next

C5_Witness ==
    /\ pc = "aborted"
    /\ error.at = "generate_initial"
    /\ prompt # UnboundText

\* a raise in the refined stage leaves the first attempt as it was
RefinedRaiseKeepsInitial ==
    (pc \in RefinedStage /\ pc' = "aborted") =>
        /\ response' = response
        /\ evaluation_results' = evaluation_results

\* C6: when a statement of the refined stage raises, the run ends and the
\* first response and its evaluation stay bound to what they were.
C6_RefinedFailureKeepsInitial ==
    /\ [](error.at \in RefinedStage =>
             /\ pc = "aborted"
             /\ response # UnboundReply
             /\ evaluation_results # UnboundDict
             /\ evaluation_results = evaluate_output(response, constraints)
             /\ refined_evaluation = UnboundDict)
    /\ [][RefinedRaiseKeepsInitial]_vars

\* the second generation call failed
C6_Witness ==
    /\ pc = "aborted"
    /\ error.at = "generate_refined"
    /\ error.type = "GenerationError"
    /\ genCalls = 2
    /\ evaluation_results # UnboundDict

\* C7: in both stages the prompt is rendered before the stage's generation
\* call: a call has been made only with its prompt bound, and a KeyError of
\* format ends the run with no call made for that stage, naming a keyword
\* that was not passed.
C7_RenderBeforeGenerate ==
    /\ genCalls >= 1 => prompt # UnboundText
    /\ genCalls >= 2 => refined_prompt # UnboundText
    /\ pc = "generate_initial" => (prompt # UnboundText /\ genCalls = 0)
    /\ pc = "generate_refined" => (refined_prompt # UnboundText /\ genCalls = 1)
    /\ error.type = "KeyError" =>
          /\ pc = "aborted"
          /\ ~ENABLED Next
          /\ error.at \in {"render_initial", "render_refined"}
          /\ error.at = "render_initial" =>
                /\ genCalls = 0
                /\ prompt = UnboundText
                /\ error.detail \in input_variables \ DOMAIN format_kwargs.initial
          /\ error.at = "render_refined" =>
                /\ genCalls = 1
                /\ refined_prompt = UnboundText
                /\ refined_response = UnboundReply
                /\ error.detail \in input_variables \ DOMAIN format_kwargs.refined

\* the refined render failed after one generation call
C7_Witness ==
    /\ pc = "aborted"
    /\ error.type = "KeyError"
    /\ error.at = "render_refined"
    /\ genCalls = 1

----------------------------------------------------------------------------
(* The refined keyword arguments *)

\* the words the two lexical constraints look for, as characters and as text
AnalogyWords ==
    << [chars |-> <<"l","i","k","e">>, text |-> "like"],
       [chars |-> <<"a","s">>,         text |-> "as"] >>

ForbiddenWords ==
    << [chars |-> excluded_list[1], text |-> "robot"],
       [chars |-> excluded_list[2], text |-> "human-like"],
       [chars |-> excluded_list[3], text |-> "science fiction"] >>

\* the upper-case form of the letters of "as" and "like"
UpperForm ==
    [a |-> "A", s |-> "S", l |-> "L", i |-> "I", k |-> "K", e |-> "E"]

\* every way of writing word in lower- and upper-case letters
CaseForms(word) ==
    { w \in [1..Len(word) -> UNION { {word[k], UpperForm[word[k]]} : k \in 1..Len(word) }] :
        \A k \in 1..Len(word) : w[k] \in {word[k], UpperForm[word[k]]} }

\* r[i..j] is a maximal run of word characters
IsWholeWord(r, i, j) ==
    /\ 1 <= i /\ i <= j /\ j <= Len(r)
    /\ \A k \in i..j : r[k] \in WordChars
    /\ i = 1 \/ r[i - 1] \notin WordChars
    /\ j = Len(r) \/ r[j + 1] \notin WordChars

\* word stands in r as a whole word, in some letter case
HasWholeWord(r, word) ==
    \E i \in 1..Len(r) :
        /\ IsWholeWord(r, i, i + Len(word) - 1)
        /\ SubSeq(r, i, i + Len(word) - 1) \in CaseForms(word)

\* the words that made no_analogies or no_excluded_words fail on r
CausedWords(r) ==
    SelectSeq(AnalogyWords, LAMBDA w : HasWholeWord(r, w.chars))
        \o SelectSeq(ForbiddenWords, LAMBDA w : contains(lower(r), w.chars))

\* text with the words of ws appended, comma separated
RECURSIVE AppendWords(_, _)
AppendWords(text, ws) ==
    IF ws = << >> THEN text
    ELSE AppendWords(text \o ", " \o Head(ws).text, Tail(ws))

\* C8 as amended: the refined prompt is the template rendered with the first
\* call's keywords, " and concise" appended to style and ", like, as" appended
\* to excluded_words, whatever the first response was.
C8_FixedAdjustment ==
    refined_prompt # UnboundText =>
        refined_prompt =
            format(constraint_prompt,
                   [topic          |-> initial_kwargs.topic,
                    style          |-> initial_kwargs.style \o " and concise",
                    excluded_words |-> initial_kwargs.excluded_words \o ", like, as"]).text

\* the refinement follows a first response that failed word_count alone
C8_Witness ==
    /\ refined_prompt # UnboundText
    /\ evaluation_results # UnboundDict
    /\ evaluation_results["word_count"] = FALSE
    /\ evaluation_results["no_analogies"] = TRUE
    /\ evaluation_results["no_excluded_words"] = TRUE

\* C8 as stated: the words appended to excluded_words are the words that made
\* no_analogies or no_excluded_words fail on the first response.
C8_AppendsCausingWords ==
    refined_prompt # UnboundText =>
        refined_prompt =
            format(constraint_prompt,
                   [topic          |-> initial_kwargs.topic,
                    style          |-> initial_kwargs.style \o " and concise",
                    excluded_words |-> AppendWords(initial_kwargs.excluded_words,
                                                   CausedWords(response))]).text

----------------------------------------------------------------------------
(* The predicates *)

\* the number of places of r where a word begins
NumWords(r) ==
    Cardinality({ i \in 1..Len(r) :
                    /\ r[i] \notin Whitespace
                    /\ i = 1 \/ r[i - 1] \in Whitespace })

\* C9: word_count is true exactly when the text has at most 100
\* whitespace-delimited words: 100 words pass, 101 fail, the empty text passes.
C9_WordCountBoundary ==
    "word_count" \in DOMAIN evaluation_results =>
        /\ evaluation_results["word_count"] = (NumWords(response) <= maxWordCount)
        /\ NumWords(response) = maxWordCount => evaluation_results["word_count"]
        /\ NumWords(response) = maxWordCount + 1 => ~evaluation_results["word_count"]
        /\ response = << >> => evaluation_results["word_count"]

\* a text of exactly 100 words has been scored
C9_Witness ==
    /\ "word_count" \in DOMAIN evaluation_results
    /\ NumWords(response) = maxWordCount
    /\ evaluation_results["word_count"] = TRUE

\* C10: no_analogies is false exactly when "as" or "like" stands in the text
\* as a whole word, in any letter case; the letters inside a longer word
\* ("Likewise") do not count.
C10_WholeWordMatch ==
    "no_analogies" \in DOMAIN evaluation_results =>
        (evaluation_results["no_analogies"] = FALSE
            <=> \E i \in 1..Len(AnalogyWords) :
                    HasWholeWord(response, AnalogyWords[i].chars))

\* "Likewise" has been scored and passes
C10_Witness ==
    /\ response = <<"L","i","k","e","w","i","s","e">>
    /\ "no_analogies" \in DOMAIN evaluation_results
    /\ evaluation_results["no_analogies"] = TRUE

====
